---- MODULE Spec2Model ----
(***************************************************************************)
(* dpvs healthcheck: probe-method registry (checker.go), the udp and       *)
(* udpping probes (udp_checker.go, udpping_checker.go), the                *)
(* KernelRouteAddDel actioner and the per-target checker loop and action   *)
(* dispatcher.                                                             *)
(*                                                                         *)
(* Go strings are modelled as sequences of one-character strings, so that  *)
(* len(), strings.ToLower and a read into a buffer of len(receive) bytes   *)
(* are computed rather than assumed.  A Go pointer is a sequence of length *)
(* 0 (nil) or 1 (the object pointed to).                                   *)
(***************************************************************************)
EXTENDS Integers, Sequences, FiniteSets, TLC

VARIABLES
    methods,    \* checker.go:70  var methods map[Method]CheckMethod
    call,       \* the last Validate / NewChecker call and what it returned
    \* one Check call of a udp or udpping checker
    pc,         \* where the call is: "idle", "ping", "dial", ..., "done"
    chk,        \* the receiver: kind and the UDPChecker fields
    timeout,    \* the timeout argument
    now,        \* time elapsed since Check was entered
    deadline,   \* udp_checker.go:63  deadline := start.Add(timeout)
    pinged,     \* what PingChecker.Check returned, and when
    budget,     \* the timeout UDPChecker.Check was entered with
    netlog,     \* the network operations performed so far, in order
    rd,         \* the outcome of udpConn.ReadFrom
    result,     \* what Check returned
    \* one KernelRouteAddDel actioner and the interface it manages
    actioner,   \* the KernelRouteAction: created, withRoute, and whether the
                \* interface named by ifname exists
    kern,       \* the interface: is the target address on it, is the host route
    acts,       \* the Act calls made so far, in order
    wpc,        \* for each Act call, where its worker goroutine is
    werr,       \* for each Act call, the value its worker is about to send
    done,       \* for each Act call, the buffer of its `done` channel
    late,       \* the kernel operations performed for a call that had returned
    \* one target of the health engine: its record, checker loop and dispatcher
    target,     \* the record's configuration, once the target is added
    clock,      \* the time, in probe intervals since the target was added
    verdict,    \* the verdict of the last probe
    confirmed,  \* the confirmed state
    counter,    \* the retry counter
    emitted,    \* the number of transition events published by the checker loop
    queue,      \* the dispatcher's event queue (capacity 1)
    dpc,        \* the dispatcher: "idle" or "acting"
    cur,        \* the event whose Act is running
    lastAction, \* the time of the last successful action, -1 before the first
    lastSignal, \* the signal of the last successful action
    disp,       \* what the dispatcher decided for the last event it took
    \* target keys
    l3l4        \* the last call of L3L4Addr.String or ParseL3L4Addr: its
                \* receiver or input and what it returned

varsRegistry == <<methods, call>>

varsProbe == <<pc, chk, timeout, now, deadline, pinged, budget, netlog, rd, result>>

varsAct == <<actioner, kern, acts, wpc, werr, done, late>>

varsEngine == <<target, clock, verdict, confirmed, counter, emitted, queue, dpc, cur,
                lastAction, lastSignal, disp>>

varsAddr == <<l3l4>>

vars == <<methods, call, pc, chk, timeout, now, deadline, pinged, budget, netlog, rd, result,
          actioner, kern, acts, wpc, werr, done, late,
          target, clock, verdict, confirmed, counter, emitted, queue, dpc, cur,
          lastAction, lastSignal, disp, l3l4>>

(***************************************************************************)
(* Strings                                                                 *)
(***************************************************************************)
EmptyStr == <<>>
StrA     == <<"a">>
StrV2    == <<"v", "2">>
StrUpV2  == <<"V", "2">>
StrV1    == <<"v", "1">>

\* strings.ToLower, on the characters the model uses
LowerChar(c) ==
    CASE c = "V" -> "v"
      [] c = "A" -> "a"
      [] OTHER   -> c

ToLower(s) == [i \in 1..Len(s) |-> LowerChar(s[i])]

(***************************************************************************)
(* Method kinds (checker.go:54-68)                                         *)
(***************************************************************************)
CheckMethodTCP     == 2
CheckMethodUDP     == 3
CheckMethodPing    == 4
CheckMethodUDPPing == 5
CheckMethodAuto    == 10000
CheckMethodPassive == 65535

\* IP protocol numbers (utils: IPProtoICMP, IPProtoICMPv6, IPProtoTCP, IPProtoUDP)
IPProtoICMP   == 1
IPProtoICMPv6 == 58
IPProtoTCP    == 6
IPProtoUDP    == 17

ParamSend       == "send"
ParamReceive    == "receive"
ParamProxyProto == "proxy-protocol"
ParamQuic       == "quic"

Nil == <<>>
Ptr(obj) == <<obj>>
IsNil(p) == Len(p) = 0
Deref(p) == p[1]

\* &UDPChecker{}
NewUDPChecker == [send |-> EmptyStr, receive |-> EmptyStr, proxyProto |-> EmptyStr]

\* &UDPPingChecker{}: both embedded pointers are nil
NewUDPPingChecker == [PingChecker |-> Nil, UDPChecker |-> Nil]

\* &PingChecker{}: the ping checker has no fields
NewPingChecker == [ping |-> TRUE]

\* &TCPChecker{}: the prototype registered for tcp
NewTCPChecker == [tcpSend |-> EmptyStr, tcpReceive |-> EmptyStr, tcpProxyProto |-> EmptyStr]

\* registerMethod(kind, method) on the map m
registerMethod(m, kind, method) ==
    [k \in (DOMAIN m) \cup {kind} |-> IF k = kind THEN method ELSE m[k]]

EmptyMap == [k \in {} |-> Nil]

\* the registrations of udp_checker.go and udpping_checker.go
UDPMethods ==
    registerMethod(registerMethod(EmptyMap, CheckMethodUDP, Ptr(NewUDPChecker)),
                   CheckMethodUDPPing, Ptr(NewUDPPingChecker))

\* the map after every init(): tcp and ping register their prototypes the same
\* way.  none and http do too; no call of the model names them.
InitMethods ==
    registerMethod(registerMethod(UDPMethods, CheckMethodTCP, Ptr(NewTCPChecker)),
                   CheckMethodPing, Ptr(NewPingChecker))

(***************************************************************************)
(* UDPChecker.validate / create                                            *)
(***************************************************************************)
Has(params, key) == key \in DOMAIN params

\* UDPParamRejected with the proxy-protocol value compared as given, not
\* lower-cased
UDPParamRejected_NoLower(param, val) ==
    CASE param = ParamSend       -> Len(val) = 0
      [] param = ParamReceive    -> Len(val) = 0
      [] param = ParamProxyProto -> val # StrV2
      [] OTHER                   -> FALSE

\* the switch of UDPChecker.validate for one (param, val): TRUE when that
\* entry makes validate return an error at once
UDPParamRejected(param, val) ==
    CASE param = ParamSend       -> Len(val) = 0
      [] param = ParamReceive    -> Len(val) = 0
      [] param = ParamProxyProto -> ToLower(val) # StrV2
      [] OTHER                   -> FALSE

UDPParamUnsupported(param) ==
    param \notin {ParamSend, ParamReceive, ParamProxyProto}

\* UDPChecker.validate: nil error (TRUE) or an error (FALSE).  The receiver is
\* never read.  Map iteration order only decides which error is reported.
UDPValidate(params) ==
    /\ \A p \in DOMAIN params : ~UDPParamRejected(p, params[p])
    /\ \A p \in DOMAIN params : ~UDPParamUnsupported(p)

\* the three assignments of UDPChecker.create, applied to the object obj
UDPBind(obj, params) ==
    [send       |-> IF Has(params, ParamSend) THEN params[ParamSend] ELSE obj.send,
     receive    |-> IF Has(params, ParamReceive) THEN params[ParamReceive] ELSE obj.receive,
     proxyProto |-> IF Has(params, ParamProxyProto) THEN params[ParamProxyProto]
                    ELSE obj.proxyProto]

\* UDPChecker.create on receiver pointer c.  Returns what the caller gets
\* (ret: "ok" | "err" | "panic", checker) and the receiver after the call.
\* The three assignments write c.send, c.receive and c.proxyProto
\* (udp_checker.go:170,173,176): the receiver, not the fresh `checker`, which
\* is returned as allocated.  Writing a field through a nil receiver panics.
UDPCreate(c, params) ==
    LET writes == \E p \in {ParamSend, ParamReceive, ParamProxyProto} : Has(params, p)
    IN  IF ~UDPValidate(params)
        THEN [ret |-> "err", checker |-> Nil, recv |-> c]
        ELSE IF writes /\ IsNil(c)
        THEN [ret |-> "panic", checker |-> Nil, recv |-> c]
        ELSE [ret |-> "ok", checker |-> Ptr(NewUDPChecker),
              recv |-> IF IsNil(c) THEN c ELSE Ptr(UDPBind(Deref(c), params))]

\* PingChecker.create(nil): the ping checker takes no params and reads no
\* field of its receiver
PingCreate(c, params) ==
    [ret |-> "ok", checker |-> Ptr(NewPingChecker), recv |-> c]

\* UDPPingChecker.validate
UDPPingValidate(params) == UDPValidate(params)

\* UDPPingChecker.create on receiver pointer c (never nil: it is the registered
\* prototype); c.PingChecker and c.UDPChecker are the embedded pointers
UDPPingCreate(c, params) ==
    LET self == Deref(c)
        ping == PingCreate(self.PingChecker, EmptyMap)
        udp  == UDPCreate(self.UDPChecker, params)
    IN  IF ~UDPPingValidate(params)
        THEN [ret |-> "err", checker |-> Nil, recv |-> c]
        ELSE IF ping.ret # "ok"
        THEN [ret |-> ping.ret, checker |-> Nil, recv |-> c]
        ELSE IF udp.ret # "ok"
        THEN [ret |-> udp.ret, checker |-> Nil,
              recv |-> Ptr([self EXCEPT !.UDPChecker = udp.recv])]
        ELSE [ret |-> "ok",
              checker |-> Ptr([PingChecker |-> ping.checker, UDPChecker |-> udp.checker]),
              recv |-> Ptr([self EXCEPT !.UDPChecker = udp.recv])]

\* TCPChecker.validate: send and receive take any value, proxy-protocol is
\* "", "v1" or "v2", any other key is unsupported
TCPValidate(params) ==
    /\ DOMAIN params \subseteq {ParamSend, ParamReceive, ParamProxyProto}
    /\ Has(params, ParamProxyProto) => params[ParamProxyProto] \in {EmptyStr, StrV1, StrV2}

\* TCPChecker.create: a fresh checker bound to the params, the prototype is
\* left alone
TCPCreate(c, params) ==
    IF ~TCPValidate(params)
    THEN [ret |-> "err", checker |-> Nil, recv |-> c]
    ELSE [ret |-> "ok",
          checker |-> Ptr([tcpSend       |-> IF Has(params, ParamSend)
                                             THEN params[ParamSend] ELSE EmptyStr,
                           tcpReceive    |-> IF Has(params, ParamReceive)
                                             THEN params[ParamReceive] ELSE EmptyStr,
                           tcpProxyProto |-> IF Has(params, ParamProxyProto)
                                             THEN params[ParamProxyProto] ELSE EmptyStr]),
          recv |-> c]

\* PingChecker.validate: the ping checker takes no params
PingValidate(params) == DOMAIN params = {}

\* PingChecker.create as a registered method: validate, then a fresh checker
PingMethodCreate(c, params) ==
    IF ~PingValidate(params)
    THEN [ret |-> "err", checker |-> Nil, recv |-> c]
    ELSE PingCreate(c, params)

\* dynamic dispatch of method.validate / method.create on a registered kind
MethodValidate(kind, params) ==
    CASE kind = CheckMethodUDP  -> UDPValidate(params)
      [] kind = CheckMethodTCP  -> TCPValidate(params)
      [] kind = CheckMethodPing -> PingValidate(params)
      [] OTHER                  -> UDPPingValidate(params)

MethodCreate(kind, c, params) ==
    CASE kind = CheckMethodUDP  -> UDPCreate(c, params)
      [] kind = CheckMethodTCP  -> TCPCreate(c, params)
      [] kind = CheckMethodPing -> PingMethodCreate(c, params)
      [] OTHER                  -> UDPPingCreate(c, params)

\* Validate(kind, configs): TRUE for a nil error
Validate(m, kind, configs) ==
    IF kind = CheckMethodAuto THEN TRUE
    ELSE IF kind \notin DOMAIN m THEN FALSE
    ELSE MethodValidate(kind, configs)

\* NewChecker(kind, target, configs): the result and the registry afterwards
NewChecker(m, kind, configs) ==
    IF kind \notin DOMAIN m
    THEN [ret |-> "err", checker |-> Nil, methods |-> m]
    ELSE LET r == MethodCreate(kind, m[kind], configs)
         IN  [ret |-> r.ret, checker |-> r.checker,
              methods |-> [m EXCEPT ![kind] = r.recv]]

\* TranslateAuto with UDP sent to the plain udp kind
TranslateAuto_UDPToUDP(m, proto) ==
    CASE proto = IPProtoTCP -> CheckMethodTCP
      [] proto = IPProtoUDP -> CheckMethodUDP
      [] OTHER              -> CheckMethodPing

\* (m *Method) TranslateAuto(proto): the receiver m is not read
TranslateAuto(m, proto) ==
    CASE proto = IPProtoTCP -> CheckMethodTCP
      [] proto = IPProtoUDP -> CheckMethodUDPPing
      [] OTHER              -> CheckMethodPing

(***************************************************************************)
(* Inputs                                                                  *)
(***************************************************************************)
\* a kind no init() registers: what ParseMethod returns for an unknown name
CheckMethodUnknown == 0

Kinds == {CheckMethodUnknown, CheckMethodTCP, CheckMethodUDP, CheckMethodPing,
          CheckMethodUDPPing, CheckMethodAuto, CheckMethodPassive}

\* the four named protocols, the zero value and one more (132, SCTP)
Protos == {0, IPProtoICMP, IPProtoTCP, IPProtoUDP, IPProtoICMPv6, 132}

ParamKeys == {ParamSend, ParamReceive, ParamProxyProto, ParamQuic}

\* the values tried for each key: empty and non-empty send / receive; empty,
\* "v2", "V2" and an unsupported value for proxy-protocol
ParamValues(key) ==
    CASE key = ParamProxyProto -> {EmptyStr, StrV2, StrUpV2, StrA}
      [] key = ParamQuic       -> {StrA}
      [] OTHER                 -> {EmptyStr, StrA}

\* every map[string]string over the keys and values above
ParamMaps ==
    UNION {{f \in [ks -> {EmptyStr, StrA, StrV2, StrUpV2}] :
               \A k \in ks : f[k] \in ParamValues(k)} : ks \in SUBSET ParamKeys}

NoCall == [op |-> "none", kind |-> 0, params |-> EmptyMap, ret |-> "none", checker |-> Nil,
           proto |-> 0, out |-> 0]

InitRegistry ==
    /\ methods = InitMethods
    /\ call = NoCall

\* a panic ends the process: nothing is called after it
Running == call.ret # "panic"

CallValidate ==
    /\ Running
    /\ \E kind \in Kinds, params \in ParamMaps :
        /\ call' = [op |-> "Validate", kind |-> kind, params |-> params,
                    ret |-> IF Validate(methods, kind, params) THEN "ok" ELSE "err",
                    checker |-> Nil, proto |-> 0, out |-> 0]
        /\ UNCHANGED methods
    /\ UNCHANGED <<varsProbe, varsAct, varsEngine, varsAddr>>

CallNewChecker ==
    /\ Running
    /\ \E kind \in Kinds, params \in ParamMaps :
        LET r == NewChecker(methods, kind, params)
        IN  /\ call' = [op |-> "NewChecker", kind |-> kind, params |-> params,
                        ret |-> r.ret, checker |-> r.checker, proto |-> 0, out |-> 0]
            /\ methods' = r.methods
    /\ UNCHANGED <<varsProbe, varsAct, varsEngine, varsAddr>>

\* m.TranslateAuto(proto) on a receiver holding any kind
CallTranslateAuto ==
    /\ Running
    /\ \E m \in Kinds, proto \in Protos :
        call' = [op |-> "TranslateAuto", kind |-> m, params |-> EmptyMap, ret |-> "ok",
                 checker |-> Nil, proto |-> proto, out |-> TranslateAuto(m, proto)]
    /\ UNCHANGED methods
    /\ UNCHANGED <<varsProbe, varsAct, varsEngine, varsAddr>>

NextRegistry ==
    \/ CallValidate
    \/ CallNewChecker
    \/ CallTranslateAuto

(***************************************************************************)
(* UDPChecker.Check and UDPPingChecker.Check                               *)
(*                                                                         *)
(* One call is followed step by step; each blocking network operation is   *)
(* one action whose outcome the network chooses.  Time is counted in ticks *)
(* since the outermost Check was entered; only the ping and the read wait. *)
(***************************************************************************)
MaxTimeout == 2

Healthy   == "Healthy"
Unhealthy == "Unhealthy"
Unknown   == "Unknown"

StrB  == <<"b">>
StrAB == <<"a", "b">>

\* the receivers Check is called on
Checkers ==
    [kind : {CheckMethodUDP, CheckMethodUDPPing},
     send : {EmptyStr, StrA},
     receive : {EmptyStr, StrA, StrAB},
     proxyProto : {EmptyStr, StrV2, StrUpV2}]

\* the datagrams the peer may answer with
Payloads == {EmptyStr, StrA, StrB, StrAB}

Timeouts == (-1)..MaxTimeout

NoResult == [state |-> "none", err |-> FALSE]
NoPing   == [state |-> "none", at |-> 0]
NoRead   == [kind |-> "none", got |-> EmptyStr]

InitProbe ==
    /\ pc = "idle"
    /\ chk = [kind |-> CheckMethodUDP, send |-> EmptyStr, receive |-> EmptyStr,
              proxyProto |-> EmptyStr]
    /\ timeout = 0
    /\ now = 0
    /\ deadline = 0
    /\ pinged = NoPing
    /\ budget = 0
    /\ netlog = <<>>
    /\ rd = NoRead
    /\ result = NoResult

\* return (state, err) from the outermost Check
Return(state, err) ==
    /\ pc' = "done"
    /\ result' = [state |-> state, err |-> err]

\* udp_checker.go:54-68: the entry of UDPChecker.Check(target, t) at time `at`
UDPEnter(t, at) ==
    /\ budget' = t
    /\ IF t <= 0
       THEN /\ Return(Unknown, TRUE)
            /\ UNCHANGED deadline
       ELSE /\ pc' = "dial"
            /\ deadline' = at + t
            /\ UNCHANGED result

\* the caller invokes Check on some checker with some timeout
StartCheck ==
    /\ pc \in {"idle", "done"}
    /\ \E c \in Checkers, t \in Timeouts :
        /\ chk' = c
        /\ timeout' = t
        /\ now' = 0
        /\ pinged' = NoPing
        /\ netlog' = <<>>
        /\ rd' = NoRead
        /\ IF c.kind = CheckMethodUDP
           THEN UDPEnter(t, 0)
           ELSE \* udpping_checker.go:53-62
                /\ budget' = 0
                /\ deadline' = 0
                /\ IF t <= 0
                   THEN Return(Unknown, TRUE)
                   ELSE /\ pc' = "ping"
                        /\ result' = NoResult
    /\ UNCHANGED <<varsRegistry, varsAct, varsEngine, varsAddr>>

\* PingChecker.Check(target, timeout): ICMP echo within the timeout window;
\* Healthy on a reply, Unhealthy otherwise, a nil error for a positive timeout.
\* It returns at some time within the timeout.
PingCheck(t) == [state : {Healthy, Unhealthy}, took : 0..t]

\* the UDP stage is skipped when the ping stage reported Unhealthy
\* (udpping_checker.go:66-69)
SkipsUDP(state) == state = Unhealthy

\* Remaining with the whole timeout handed to the UDP stage
Remaining_Whole(t, at) == t

\* the budget of the UDP stage: time.Until(start.Add(timeout))
\* (udpping_checker.go:71)
Remaining(t, at) == t - at

\* udpping_checker.go:62-73: the ping stage returns
PingReturn ==
    /\ pc = "ping"
    /\ \E r \in PingCheck(timeout) :
        /\ now' = now + r.took
        /\ pinged' = [state |-> r.state, at |-> now + r.took]
        /\ netlog' = Append(netlog, "ping")
        /\ IF SkipsUDP(r.state)
           THEN /\ Return(Unhealthy, FALSE)
                /\ UNCHANGED <<budget, deadline>>
           ELSE UDPEnter(Remaining(timeout, now + r.took), now + r.took)
    /\ UNCHANGED <<chk, timeout, rd>>
    /\ UNCHANGED <<varsRegistry, varsAct, varsEngine, varsAddr>>

\* udp_checker.go:65-79: dial.Dial and the *net.UDPConn assertion
Dial ==
    /\ pc = "dial"
    /\ netlog' = Append(netlog, "dial")
    /\ \E outcome \in {"ok", "fail", "notudp"} :
        IF outcome = "ok"
        THEN /\ pc' = "setdeadline"
             /\ UNCHANGED result
        ELSE Return(Unhealthy, FALSE)
    /\ UNCHANGED <<chk, timeout, now, deadline, pinged, budget, rd>>
    /\ UNCHANGED <<varsRegistry, varsAct, varsEngine, varsAddr>>

\* "v2" == c.proxyProto (udp_checker.go:87)
WantsProxyV2(c) == c.proxyProto = StrV2

\* udp_checker.go:81-85
SetDeadline ==
    /\ pc = "setdeadline"
    /\ \E ok \in BOOLEAN :
        IF ok
        THEN /\ pc' = IF WantsProxyV2(chk) THEN "proxy" ELSE "write"
             /\ UNCHANGED result
        ELSE Return(Unhealthy, FALSE)
    /\ UNCHANGED <<chk, timeout, now, deadline, pinged, budget, netlog, rd>>
    /\ UNCHANGED <<varsRegistry, varsAct, varsEngine, varsAddr>>

\* udp_checker.go:87-93
WriteProxy ==
    /\ pc = "proxy"
    /\ netlog' = Append(netlog, "proxy")
    /\ \E ok \in BOOLEAN :
        IF ok
        THEN /\ pc' = "write"
             /\ UNCHANGED result
        ELSE Return(Unhealthy, FALSE)
    /\ UNCHANGED <<chk, timeout, now, deadline, pinged, budget, rd>>
    /\ UNCHANGED <<varsRegistry, varsAct, varsEngine, varsAddr>>

\* udp_checker.go:95-103: c.send, or a zero-length datagram
Write ==
    /\ pc = "write"
    /\ netlog' = Append(netlog, "write")
    /\ \E ok \in BOOLEAN :
        IF ok
        THEN /\ pc' = "read"
             /\ UNCHANGED result
        ELSE Return(Unhealthy, FALSE)
    /\ UNCHANGED <<chk, timeout, now, deadline, pinged, budget, rd>>
    /\ UNCHANGED <<varsRegistry, varsAct, varsEngine, varsAddr>>

\* buf[:n] after ReadFrom(buf) of one datagram: at most len(buf) bytes
Truncate(payload, buflen) ==
    SubSeq(payload, 1, IF Len(payload) < buflen THEN Len(payload) ELSE buflen)

\* ReadErrorVerdict without the neterr.Timeout() test
ReadErrorVerdict_AnyError(c, isTimeout) ==
    IF Len(c.send) = 0 /\ Len(c.receive) = 0 THEN Healthy ELSE Unhealthy

\* udp_checker.go:107-122: the verdict when ReadFrom returned an error
ReadErrorVerdict(c, isTimeout) ==
    IF Len(c.send) = 0 /\ Len(c.receive) = 0 /\ isTimeout THEN Healthy ELSE Unhealthy

\* udp_checker.go:124-131: the verdict when ReadFrom returned n bytes
ReadDataVerdict(c, got) ==
    IF got # c.receive THEN Unhealthy ELSE Healthy

\* udp_checker.go:105-131: ReadFrom into a buffer of len(c.receive) bytes.  The
\* read ends with a datagram or an error before the deadline, or with a
\* timeout error at the deadline.
Read ==
    /\ pc = "read"
    /\ netlog' = Append(netlog, "read")
    /\ \/ \E payload \in Payloads, at \in now..deadline :
            /\ now' = at
            /\ rd' = [kind |-> "data", got |-> Truncate(payload, Len(chk.receive))]
            /\ Return(ReadDataVerdict(chk, rd'.got), FALSE)
       \/ \E at \in now..deadline :
            /\ now' = at
            /\ rd' = [kind |-> "error", got |-> EmptyStr]
            /\ Return(ReadErrorVerdict(chk, FALSE), FALSE)
       \/ /\ now' = deadline
          /\ rd' = [kind |-> "timeout", got |-> EmptyStr]
          /\ Return(ReadErrorVerdict(chk, TRUE), FALSE)
    /\ UNCHANGED <<chk, timeout, deadline, pinged, budget>>
    /\ UNCHANGED <<varsRegistry, varsAct, varsEngine, varsAddr>>

NextProbe ==
    \/ StartCheck
    \/ PingReturn
    \/ Dial
    \/ SetDeadline
    \/ WriteProxy
    \/ Write
    \/ Read

(***************************************************************************)
(* KernelRouteAction (the KernelRouteAddDel actioner)                      *)
(*                                                                         *)
(* Act starts a worker goroutine that makes the netlink calls and sends    *)
(* its result on `done` (capacity 1); Act itself waits for `done` or for   *)
(* the timeout, whichever comes first.  The caller issues Act calls one    *)
(* after another.                                                          *)
(***************************************************************************)
MaxCalls == 2

\* capacity of the done channel: make(chan error, 1)
DoneCap == 1

\* the timeouts Act is called with: zero and a positive one
ActTimeouts == {0, 1}

Signals == {Healthy, Unhealthy}

\* errno values the netlink calls answer with
EEXIST        == "EEXIST"
ENOENT        == "ENOENT"
ESRCH         == "ESRCH"
EADDRNOTAVAIL == "cannot assign requested address"
EPERM         == "EPERM"
NoErr         == "nil"

InitAct ==
    /\ actioner = [created |-> FALSE, withRoute |-> FALSE, link |-> FALSE]
    /\ kern = [addr |-> FALSE, route |-> FALSE]
    /\ acts = <<>>
    /\ wpc = <<>>
    /\ werr = <<>>
    /\ done = <<>>
    /\ late = {}

\* KernelRouteAction.create: binds with-route; ifname may or may not name an
\* interface of the system (validate does not look), and the interface may
\* already carry the address or the route
CreateAction ==
    /\ ~actioner.created
    /\ \E withRoute \in BOOLEAN, link \in BOOLEAN, addr \in BOOLEAN, route \in BOOLEAN :
        /\ actioner' = [created |-> TRUE, withRoute |-> withRoute, link |-> link]
        /\ kern' = [addr |-> link /\ addr, route |-> link /\ route]
    /\ UNCHANGED <<acts, wpc, werr, done, late>>
    /\ UNCHANGED <<varsRegistry, varsProbe, varsEngine, varsAddr>>

\* isExistError testing for the wrong errno
isExistError_WrongErrno(err) == err = ENOENT

\* checker.go:256-259: errors.Is(err, unix.EEXIST)
isExistError(err) == err = EEXIST

\* checker.go:263-267: ENOENT, ESRCH or the "cannot assign requested address" text
isNotExistError(err) == err \in {ENOENT, ESRCH, EADDRNOTAVAIL}

\* netlink.AddrAdd / AddrDel / RouteAdd / RouteDel as the kernel answers them:
\* the error returned (denied: the kernel refuses the request) and the
\* interface afterwards
AddrAdd(k, denied) ==
    IF denied THEN [err |-> EPERM, kern |-> k]
    ELSE IF k.addr THEN [err |-> EEXIST, kern |-> k]
    ELSE [err |-> NoErr, kern |-> [k EXCEPT !.addr = TRUE]]

AddrDel(k, denied) ==
    IF denied THEN [err |-> EPERM, kern |-> k]
    ELSE IF ~k.addr THEN [err |-> EADDRNOTAVAIL, kern |-> k]
    ELSE [err |-> NoErr, kern |-> [k EXCEPT !.addr = FALSE]]

RouteAdd(k, denied) ==
    IF denied THEN [err |-> EPERM, kern |-> k]
    ELSE IF k.route THEN [err |-> EEXIST, kern |-> k]
    ELSE [err |-> NoErr, kern |-> [k EXCEPT !.route = TRUE]]

RouteDel(k, denied) ==
    IF denied THEN [err |-> EPERM, kern |-> k]
    ELSE IF ~k.route THEN [err |-> ESRCH, kern |-> k]
    ELSE [err |-> NoErr, kern |-> [k EXCEPT !.route = FALSE]]

\* checker.go:313: signal != types.Unhealthy selects ADD
IsAdd(signal) == signal # Unhealthy

\* does the worker give up after the address call answered err
\* (checker.go:314-321, 336-343)
AddrCallFails(signal, err) ==
    /\ err # NoErr
    /\ IF IsAdd(signal) THEN ~isExistError(err) ELSE ~isNotExistError(err)

\* does the worker give up after the route call answered err
\* (checker.go:328-333, 350-355)
RouteCallFails(signal, err) ==
    /\ err # NoErr
    /\ IF IsAdd(signal) THEN ~isExistError(err) ELSE ~isNotExistError(err)

\* the caller of Act is inside no Act call
CallerIdle == \A i \in 1..Len(acts) : acts[i].status = "returned"

NoKern == [addr |-> FALSE, route |-> FALSE]

\* checker.go:269-283: Act(signal, timeout) is called; a timeout <= 0 returns an
\* error at once, else the worker goroutine is started
ActCall ==
    /\ actioner.created
    /\ CallerIdle
    /\ Len(acts) < MaxCalls
    /\ \E signal \in Signals, t \in ActTimeouts :
        IF t <= 0
        THEN /\ acts' = Append(acts, [signal |-> signal, timeout |-> t,
                                      status |-> "returned", ret |-> "err",
                                      denied |-> FALSE, after |-> kern])
             /\ wpc' = Append(wpc, "none")
        ELSE /\ acts' = Append(acts, [signal |-> signal, timeout |-> t,
                                      status |-> "running", ret |-> "none",
                                      denied |-> FALSE, after |-> NoKern])
             /\ wpc' = Append(wpc, "link")
    /\ werr' = Append(werr, NoErr)
    /\ done' = Append(done, <<>>)
    /\ UNCHANGED <<actioner, kern, late>>
    /\ UNCHANGED <<varsRegistry, varsProbe, varsEngine, varsAddr>>

\* checker.go:367-369: ctx.Done() is ready; Act returns ctx.Err()
ActTimeout ==
    /\ \E i \in 1..Len(acts) :
        /\ acts[i].status = "running"
        /\ acts' = [acts EXCEPT ![i].status = "returned", ![i].ret = "timeout",
                                ![i].after = kern]
    /\ UNCHANGED <<actioner, kern, wpc, werr, done, late>>
    /\ UNCHANGED <<varsRegistry, varsProbe, varsEngine, varsAddr>>

\* checker.go:370-377: a value is received from done
ActDone ==
    /\ \E i \in 1..Len(acts) :
        /\ acts[i].status = "running"
        /\ done[i] # <<>>
        /\ acts' = [acts EXCEPT ![i].status = "returned",
                                ![i].ret = IF Head(done[i]) # NoErr THEN "err" ELSE "ok",
                                ![i].after = kern]
        /\ done' = [done EXCEPT ![i] = Tail(done[i])]
    /\ UNCHANGED <<actioner, kern, wpc, werr, late>>
    /\ UNCHANGED <<varsRegistry, varsProbe, varsEngine, varsAddr>>

\* the kernel operations a worker performs after its call has returned
NoteLate(i, op) ==
    late' = IF acts[i].status = "returned" THEN late \cup {<<i, op>>} ELSE late

\* checker.go:298-302: netlink.LinkByName(a.ifname)
WorkerLink ==
    /\ \E i \in 1..Len(acts) :
        /\ wpc[i] = "link"
        /\ IF actioner.link
           THEN /\ wpc' = [wpc EXCEPT ![i] = "addr"]
                /\ UNCHANGED werr
           ELSE /\ wpc' = [wpc EXCEPT ![i] = "send"]
                /\ werr' = [werr EXCEPT ![i] = ENOENT]
    /\ UNCHANGED <<actioner, kern, acts, done, late>>
    /\ UNCHANGED <<varsRegistry, varsProbe, varsEngine, varsAddr>>

\* checker.go:313-321 and 336-343: AddrAdd or AddrDel
WorkerAddr ==
    /\ \E i \in 1..Len(acts), denied \in BOOLEAN :
        LET add == IsAdd(acts[i].signal)
            r   == IF add THEN AddrAdd(kern, denied) ELSE AddrDel(kern, denied)
        IN  /\ wpc[i] = "addr"
            /\ kern' = r.kern
            /\ NoteLate(i, IF add THEN "AddrAdd" ELSE "AddrDel")
            /\ acts' = [acts EXCEPT ![i].denied = @ \/ denied]
            /\ IF AddrCallFails(acts[i].signal, r.err)
               THEN /\ wpc' = [wpc EXCEPT ![i] = "send"]
                    /\ werr' = [werr EXCEPT ![i] = r.err]
               ELSE /\ wpc' = [wpc EXCEPT ![i] = IF actioner.withRoute THEN "route" ELSE "send"]
                    /\ UNCHANGED werr
    /\ UNCHANGED <<actioner, done>>
    /\ UNCHANGED <<varsRegistry, varsProbe, varsEngine, varsAddr>>

\* checker.go:323-334 and 345-356: RouteAdd or RouteDel
WorkerRoute ==
    /\ \E i \in 1..Len(acts), denied \in BOOLEAN :
        LET add == IsAdd(acts[i].signal)
            r   == IF add THEN RouteAdd(kern, denied) ELSE RouteDel(kern, denied)
        IN  /\ wpc[i] = "route"
            /\ kern' = r.kern
            /\ NoteLate(i, IF add THEN "RouteAdd" ELSE "RouteDel")
            /\ acts' = [acts EXCEPT ![i].denied = @ \/ denied]
            /\ wpc' = [wpc EXCEPT ![i] = "send"]
            /\ IF RouteCallFails(acts[i].signal, r.err)
               THEN werr' = [werr EXCEPT ![i] = r.err]
               ELSE UNCHANGED werr
    /\ UNCHANGED <<actioner, done>>
    /\ UNCHANGED <<varsRegistry, varsProbe, varsEngine, varsAddr>>

\* CanSend for a channel made without a buffer: a send goes through only
\* while the other side is receiving
CanSend_Unbuffered(buf, receiving) == receiving /\ Len(buf) < 1

\* can a send on the done channel go through: there is room in its buffer,
\* whether or not Act is still receiving
CanSend(buf, receiving) == Len(buf) < DoneCap

\* is Act call i still in its select, ready to receive from done
Receiving(i) == acts[i].status = "running"

\* done <- err (or done <- nil), then the goroutine ends; the send waits while
\* it cannot go through
WorkerSend ==
    /\ \E i \in 1..Len(acts) :
        /\ wpc[i] = "send"
        /\ CanSend(done[i], Receiving(i))
        /\ done' = [done EXCEPT ![i] = Append(done[i], werr[i])]
        /\ wpc' = [wpc EXCEPT ![i] = "exit"]
    /\ UNCHANGED <<actioner, kern, acts, werr, late>>
    /\ UNCHANGED <<varsRegistry, varsProbe, varsEngine, varsAddr>>

NextAct ==
    \/ CreateAction
    \/ ActCall
    \/ ActTimeout
    \/ ActDone
    \/ WorkerLink
    \/ WorkerAddr
    \/ WorkerRoute
    \/ WorkerSend

(***************************************************************************)
(* The per-target health engine: checker loop (hysteresis state machine)   *)
(* and action dispatcher.  One probe is made per interval, so the clock    *)
(* counts probes; an Act may last any number of intervals.                 *)
(***************************************************************************)
MaxTicks == 6

MaxRetry == 3

MaxSync == 2

\* the retry value that stands for "zero retry"
ZeroRetry == 999999

Retries == (1..MaxRetry) \cup {ZeroRetry}

States == {Healthy, Unhealthy}

NoEvent == [signal |-> "none", ts |-> 0, initial |-> FALSE]

NoDecision == [outcome |-> "none", same |-> FALSE, within |-> FALSE, initial |-> FALSE]

InitEngine ==
    /\ target = [added |-> FALSE, upRetry |-> 1, downRetry |-> 1, syncTime |-> 1]
    /\ clock = 0
    /\ verdict = "none"
    /\ confirmed = Healthy
    /\ counter = 0
    /\ emitted = 0
    /\ queue = <<>>
    /\ dpc = "idle"
    /\ cur = NoEvent
    /\ lastAction = -1
    /\ lastSignal = "none"
    /\ disp = NoDecision

\* the queue after an event is published: capacity 1, the latest event
\* supersedes a pending one
Publish(q, ev) == <<ev>>

\* AddTarget: the record is created with its configuration and initial
\* confirmed state, and the initial event matching that state is synthesized
AddTarget ==
    /\ ~target.added
    /\ \E up \in Retries, down \in Retries, sync \in 1..MaxSync, initial \in States :
        /\ target' = [added |-> TRUE, upRetry |-> up, downRetry |-> down, syncTime |-> sync]
        /\ confirmed' = initial
        /\ queue' = Publish(queue, [signal |-> initial, ts |-> clock, initial |-> TRUE])
    /\ UNCHANGED <<clock, verdict, counter, emitted, dpc, cur, lastAction, lastSignal, disp>>
    /\ UNCHANGED <<varsRegistry, varsProbe, varsAct, varsAddr>>

\* the number of opposing verdicts that flips the state: 999999 means one
Threshold(retry) == IF retry = ZeroRetry THEN 1 ELSE retry

\* Needed with the two retry fields exchanged
Needed_Swapped(t, state) ==
    IF state = Healthy THEN Threshold(t.upRetry) ELSE Threshold(t.downRetry)

\* N: down-retry while Healthy, up-retry while Unhealthy
Needed(t, state) ==
    IF state = Healthy THEN Threshold(t.downRetry) ELSE Threshold(t.upRetry)

Opposite(state) == IF state = Healthy THEN Unhealthy ELSE Healthy

\* one pass of the checker loop body with the verdict v of Check
Tick ==
    /\ target.added
    /\ clock < MaxTicks
    /\ \E v \in {Healthy, Unhealthy, Unknown} :
        /\ verdict' = v
        /\ clock' = clock + 1
        /\ IF v = Unknown
           THEN UNCHANGED <<confirmed, counter, emitted, queue>>
           ELSE IF v = confirmed
           THEN /\ counter' = 0
                /\ UNCHANGED <<confirmed, emitted, queue>>
           ELSE IF counter + 1 >= Needed(target, confirmed)
           THEN /\ confirmed' = Opposite(confirmed)
                /\ counter' = 0
                /\ emitted' = emitted + 1
                /\ queue' = Publish(queue, [signal |-> Opposite(confirmed),
                                            ts |-> clock + 1, initial |-> FALSE])
           ELSE /\ counter' = counter + 1
                /\ UNCHANGED <<confirmed, emitted, queue>>
    /\ UNCHANGED <<target, dpc, cur, lastAction, lastSignal, disp>>
    /\ UNCHANGED <<varsRegistry, varsProbe, varsAct, varsAddr>>

\* rule 1: the event is older than the last action
IsStale(ev, last) == ev.ts < last

\* IsDebounced without the comparison of signals
IsDebounced_AnySignal(ev, at, last, lastSig, sync) ==
    /\ ~ev.initial
    /\ last >= 0
    /\ at - last < sync

\* rule 2: the event comes within action-sync-time of the last successful
\* action and carries its signal; the initial event bypasses the rule
IsDebounced(ev, at, last, lastSig, sync) ==
    /\ ~ev.initial
    /\ last >= 0
    /\ at - last < sync
    /\ ev.signal = lastSig

\* the dispatcher takes the next event and drops it or invokes Act
Dispatch ==
    /\ dpc = "idle"
    /\ queue # <<>>
    /\ LET ev == Head(queue)
           stale == IsStale(ev, lastAction)
           deb == ~stale /\ IsDebounced(ev, clock, lastAction, lastSignal, target.syncTime)
       IN  /\ queue' = Tail(queue)
           /\ disp' = [outcome |-> IF stale THEN "stale"
                                   ELSE IF deb THEN "debounced" ELSE "act",
                       same |-> ev.signal = lastSignal,
                       within |-> lastAction >= 0 /\ clock - lastAction < target.syncTime,
                       initial |-> ev.initial]
           /\ IF stale \/ deb
              THEN UNCHANGED <<dpc, cur>>
              ELSE /\ dpc' = "acting"
                   /\ cur' = ev
    /\ UNCHANGED <<target, clock, verdict, confirmed, counter, emitted, lastAction, lastSignal>>
    /\ UNCHANGED <<varsRegistry, varsProbe, varsAct, varsAddr>>

\* Act returns: on success last-action and the signal are stored, on error
\* nothing is; either way the dispatcher goes back to its queue
ActReturn ==
    /\ dpc = "acting"
    /\ \E ok \in BOOLEAN :
        IF ok
        THEN /\ lastAction' = clock
             /\ lastSignal' = cur.signal
        ELSE UNCHANGED <<lastAction, lastSignal>>
    /\ dpc' = "idle"
    /\ cur' = NoEvent
    /\ UNCHANGED <<target, clock, verdict, confirmed, counter, emitted, queue, disp>>
    /\ UNCHANGED <<varsRegistry, varsProbe, varsAct, varsAddr>>

NextLoop ==
    \/ AddTarget
    \/ Tick

NextEngine ==
    \/ AddTarget
    \/ Tick
    \/ Dispatch
    \/ ActReturn

\* Act returns success: the branch of ActReturn taken when no action fails
ActSuccess ==
    /\ dpc = "acting"
    /\ lastAction' = clock
    /\ lastSignal' = cur.signal
    /\ dpc' = "idle"
    /\ cur' = NoEvent
    /\ UNCHANGED <<target, clock, verdict, confirmed, counter, emitted, queue, disp>>
    /\ UNCHANGED <<varsRegistry, varsProbe, varsAct, varsAddr>>

\* the engine when no Act returns an error
NextEngineNoError ==
    \/ AddTarget
    \/ Tick
    \/ Dispatch
    \/ ActSuccess

(***************************************************************************)
(* Target keys: L3L4Addr.String and ParseL3L4Addr (package utils)          *)
(*                                                                         *)
(* Text is a sequence of characters and an IP is its sequence of bytes, 4  *)
(* or 16 long, so that rendering and parsing are computed, not assumed.    *)
(***************************************************************************)
DigitChars == <<"0", "1", "2", "3", "4", "5", "6", "7", "8", "9",
                "a", "b", "c", "d", "e", "f">>

Digit(d) == DigitChars[d + 1]

IsDigit(c, base) == \E d \in 0..(base - 1) : DigitChars[d + 1] = c

DigitVal(c) == CHOOSE d \in 0..15 : DigitChars[d + 1] = c

Min(S) == CHOOSE x \in S : \A y \in S : x <= y

Max(S) == CHOOSE x \in S : \A y \in S : x >= y

\* the %d verb and appendHex: the digits of n in the base, no leading zero
RECURSIVE FormatUint(_, _)
FormatUint(n, base) ==
    IF n < base THEN <<Digit(n)>>
    ELSE Append(FormatUint(n \div base, base), Digit(n % base))

AllDigits(s, base) == Len(s) > 0 /\ \A i \in 1..Len(s) : IsDigit(s[i], base)

\* the number a string of digits denotes
RECURSIVE ParseDigits(_, _)
ParseDigits(s, base) ==
    IF Len(s) = 0 THEN 0
    ELSE ParseDigits(SubSeq(s, 1, Len(s) - 1), base) * base + DigitVal(s[Len(s)])

\* strings.Split(s, sep) for a one-character separator: never empty
RECURSIVE Split(_, _)
Split(s, sep) ==
    LET at == {i \in 1..Len(s) : s[i] = sep}
    IN  IF at = {} THEN <<s>>
        ELSE <<SubSeq(s, 1, Min(at) - 1)>> \o Split(SubSeq(s, Min(at) + 1, Len(s)), sep)

\* the pieces written one after another with sep between them
RECURSIVE Join(_, _)
Join(segs, sep) ==
    IF Len(segs) = 0 THEN <<>>
    ELSE IF Len(segs) = 1 THEN segs[1]
    ELSE segs[1] \o <<sep>> \o Join(Tail(segs), sep)

\* strconv.ParseUint(s, 10, 16): err for an empty string, a character that is
\* no digit, or a value above 65535
ParseUint(s) ==
    IF AllDigits(s, 10) /\ Len(s) <= 5 /\ ParseDigits(s, 10) <= 65535
    THEN [err |-> FALSE, val |-> ParseDigits(s, 10)]
    ELSE [err |-> TRUE, val |-> 0]

\* net.IPv4(a, b, c, d): the 16-byte form of an IPv4 address
IPv4(a, b, c, d) == <<0, 0, 0, 0, 0, 0, 0, 0, 0, 0, 255, 255, a, b, c, d>>

\* ip.To4(): the 4-byte form, or nil when ip is not an IPv4 address
To4(ip) ==
    IF Len(ip) = 4 THEN ip
    ELSE IF /\ Len(ip) = 16
            /\ \A i \in 1..10 : ip[i] = 0
            /\ ip[11] = 255
            /\ ip[12] = 255
    THEN SubSeq(ip, 13, 16)
    ELSE Nil

\* ip.Equal(x): an IPv4 address equals its 16-byte form
IPEqual(ip, x) ==
    IF Len(ip) = Len(x) THEN ip = x
    ELSE IF Len(ip) = 4 /\ Len(x) = 16 THEN To4(x) = ip
    ELSE IF Len(ip) = 16 /\ Len(x) = 4 THEN To4(ip) = x
    ELSE FALSE

\* the eight 16-bit groups of a 16-byte address
Groups(ip) == [i \in 1..8 |-> ip[2 * i - 1] * 256 + ip[2 * i]]

\* the number of zero groups in a row from group i on
ZeroRun(g, i) == Min({j \in i..9 : j = 9 \/ g[j] # 0}) - i

\* the first of the longest runs of zero groups
LongestRun(g) ==
    LET best == Max({ZeroRun(g, i) : i \in 1..8})
    IN  [at |-> Min({i \in 1..8 : ZeroRun(g, i) = best}), len |-> best]

\* ip.String(): dotted decimal for an IPv4 address in either form, else the
\* groups in hexadecimal with the longest run of two or more zero groups
\* written "::"
IPString(ip) ==
    LET p4  == To4(ip)
        g   == Groups(ip)
        hex == [i \in 1..8 |-> FormatUint(g[i], 16)]
        run == LongestRun(g)
    IN  IF Len(ip) = 0 THEN <<"<", "n", "i", "l", ">">>
        ELSE IF Len(p4) = 4 THEN Join([i \in 1..4 |-> FormatUint(p4[i], 10)], ".")
        ELSE IF run.len < 2 THEN Join(hex, ":")
        ELSE Join(SubSeq(hex, 1, run.at - 1), ":") \o <<":", ":">>
             \o Join(SubSeq(hex, run.at + run.len, 8), ":")

\* one field of a dotted address: 1 to 3 decimal digits, at most 255, no
\* leading zero
ValidOctet(t) ==
    /\ AllDigits(t, 10)
    /\ Len(t) <= 3
    /\ Len(t) > 1 => t[1] # "0"
    /\ ParseDigits(t, 10) <= 255

ParseIPv4(s) ==
    LET f == Split(s, ".")
    IN  IF Len(f) = 4 /\ \A i \in 1..4 : ValidOctet(f[i])
        THEN IPv4(ParseDigits(f[1], 10), ParseDigits(f[2], 10),
                  ParseDigits(f[3], 10), ParseDigits(f[4], 10))
        ELSE Nil

\* one group of a colon address: 1 to 4 hexadecimal digits
ValidGroup(t) == AllDigits(t, 16) /\ Len(t) <= 4

\* the groups written in t, none for the empty text
GroupsOf(t) == IF Len(t) = 0 THEN <<>> ELSE Split(t, ":")

\* the 16 bytes of eight groups given as text
GroupBytes(f) ==
    [i \in 1..16 |-> IF i % 2 = 1 THEN ParseDigits(f[(i + 1) \div 2], 16) \div 256
                     ELSE ParseDigits(f[i \div 2], 16) % 256]

\* a colon address: eight groups, or fewer around one "::" that stands for
\* the missing zero groups.  (An IPv4 tail after the colons is not parsed
\* here; no input of the model has one.)
ParseIPv6(s) ==
    LET e     == {i \in 1..(Len(s) - 1) : s[i] = ":" /\ s[i + 1] = ":"}
        all   == Split(s, ":")
        left  == GroupsOf(SubSeq(s, 1, Min(e) - 1))
        right == GroupsOf(SubSeq(s, Min(e) + 2, Len(s)))
        fill  == [i \in 1..(8 - Len(left) - Len(right)) |-> <<"0">>]
    IN  IF e = {}
        THEN IF Len(all) = 8 /\ \A i \in 1..8 : ValidGroup(all[i])
             THEN GroupBytes(all) ELSE Nil
        ELSE IF /\ Len(left) + Len(right) <= 7
                /\ \A i \in 1..Len(left) : ValidGroup(left[i])
                /\ \A i \in 1..Len(right) : ValidGroup(right[i])
        THEN GroupBytes(left \o fill \o right)
        ELSE Nil

\* net.ParseIP(s): the first '.' or ':' decides the family; nil when s is
\* not an IP literal
ParseIP(s) ==
    LET at == {i \in 1..Len(s) : s[i] \in {".", ":"}}
    IN  IF at = {} THEN Nil
        ELSE IF s[Min(at)] = "." THEN ParseIPv4(s)
        ELSE ParseIPv6(s)

StrICMP   == <<"I", "C", "M", "P">>
StrICMPv6 == <<"I", "C", "M", "P", "v", "6">>
StrTCP    == <<"T", "C", "P">>
StrUDP    == <<"U", "D", "P">>

\* (proto IPProto) String()
IPProtoString(proto) ==
    CASE proto = IPProtoICMP   -> StrICMP
      [] proto = IPProtoICMPv6 -> StrICMPv6
      [] proto = IPProtoTCP    -> StrTCP
      [] proto = IPProtoUDP    -> StrUDP
      [] OTHER -> <<"I", "P", "P", "r", "o", "t", "o", "(">> \o FormatUint(proto, 10)
                  \o <<")">>

\* ParseIPProto with "ICMPv6" read as ICMP
ParseIPProto_V6AsICMP(str) ==
    CASE str = StrTCP    -> IPProtoTCP
      [] str = StrUDP    -> IPProtoUDP
      [] str = StrICMP   -> IPProtoICMP
      [] str = StrICMPv6 -> IPProtoICMP
      [] OTHER           -> 0

\* ParseIPProto(str): 0 for any other text
ParseIPProto(str) ==
    CASE str = StrTCP    -> IPProtoTCP
      [] str = StrUDP    -> IPProtoUDP
      [] str = StrICMP   -> IPProtoICMP
      [] str = StrICMPv6 -> IPProtoICMPv6
      [] OTHER           -> 0

\* (addr *L3L4Addr) String(): "%s-%s-%d" of IP, Proto, Port
L3L4AddrString(addr) ==
    IPString(addr.IP) \o <<"-">> \o IPProtoString(addr.Proto) \o <<"-">>
    \o FormatUint(addr.Port, 10)

\* L3L4Addr{}
ZeroAddr == [IP |-> Nil, Port |-> 0, Proto |-> 0]

\* ParseL3L4Addr(str).  ret is "nil" for a nil result, "addr" for an
\* address, "panic" for a runtime failure.  segs = segs[1:] is evaluated
\* twice whatever the number of segments; applied to a slice of length 0 it
\* is out of range and panics.
ParseL3L4Addr(str) ==
    LET segs  == Split(str, "-")
        ip    == ParseIP(segs[1])
        segs1 == Tail(segs)
        proto == ParseIPProto(segs1[1])
        segs2 == Tail(segs1)
        port  == ParseUint(segs2[1])
    IN  IF IsNil(ip)
        THEN [ret |-> "nil", addr |-> ZeroAddr]
        ELSE IF Len(segs1) > 0 /\ proto = 0
        THEN [ret |-> "nil", addr |-> ZeroAddr]
        ELSE IF Len(segs1) < 1
        THEN [ret |-> "panic", addr |-> ZeroAddr]
        ELSE IF Len(segs2) > 0 /\ port.err
        THEN [ret |-> "nil", addr |-> ZeroAddr]
        ELSE [ret |-> "addr",
              addr |-> [IP |-> ip, Port |-> IF Len(segs2) > 0 THEN port.val ELSE 0,
                        Proto |-> proto]]

(***************************************************************************)
(* Inputs                                                                  *)
(***************************************************************************)
\* IPv4 addresses in the 4-byte and in the 16-byte form
IPv4s ==
    LET quads == {<<a, b, c, d>> : a \in {10, 192}, b \in {0, 168}, c \in {0, 1},
                                  d \in {1, 255}}
    IN  quads \cup {IPv4(q[1], q[2], q[3], q[4]) : q \in quads}

\* IPv6 addresses: a first group of 0 or 2000, then two zero groups, then
\* five groups of 0 or 1, so that runs of zero groups of every length and
\* place occur
IPv6s ==
    {[i \in 1..16 |-> IF i = 1 THEN hi
                      ELSE IF i = 2 THEN 0
                      ELSE IF i >= 8 /\ i % 2 = 0 THEN lo[(i - 6) \div 2]
                      ELSE 0] :
        hi \in {0, 32}, lo \in [1..5 -> {0, 1}]}

Ports == {0, 80, 65535}

\* every L3L4Addr with a valid IP, one of the four protocols and a port
Addrs ==
    [IP : IPv4s \cup IPv6s,
     Port : Ports,
     Proto : {IPProtoTCP, IPProtoUDP, IPProtoICMP, IPProtoICMPv6}]

\* the segments input strings are made of: IP literals, protocol names,
\* ports, and text that is none of them
SegTexts ==
    {<<"1", "0", ".", "0", ".", "0", ".", "1">>, <<":", ":", "1">>,
     StrTCP, StrICMPv6, <<"t", "c", "p">>,
     <<"8", "0">>, <<"6", "5", "5", "3", "6">>, EmptyStr}

MaxSegs == 4

\* every input of 1 to MaxSegs segments joined by '-'
Inputs == {Join(segs, "-") : segs \in UNION {[1..n -> SegTexts] : n \in 1..MaxSegs}}

NoL3L4 == [op |-> "none", addr |-> ZeroAddr, str |-> EmptyStr, ret |-> "none",
           out |-> ZeroAddr]

InitAddr == l3l4 = NoL3L4

\* the functions keep no state between calls: each behaviour follows one call
\* from the start
NotCalled == l3l4.op = "none"

\* a.String() for an address a
CallString ==
    /\ NotCalled
    /\ \E a \in Addrs :
        l3l4' = [op |-> "String", addr |-> a, str |-> L3L4AddrString(a), ret |-> "none",
                 out |-> ZeroAddr]
    /\ UNCHANGED <<varsRegistry, varsProbe, varsAct, varsEngine>>

\* ParseL3L4Addr on the text the last String call returned
CallParseRendered ==
    /\ l3l4.op = "String"
    /\ LET r == ParseL3L4Addr(l3l4.str)
       IN  l3l4' = [l3l4 EXCEPT !.op = "RoundTrip", !.ret = r.ret, !.out = r.addr]
    /\ UNCHANGED <<varsRegistry, varsProbe, varsAct, varsEngine>>

\* ParseL3L4Addr on any input text
CallParse ==
    /\ NotCalled
    /\ \E str \in Inputs :
        LET r == ParseL3L4Addr(str)
        IN  l3l4' = [op |-> "Parse", addr |-> ZeroAddr, str |-> str, ret |-> r.ret,
                     out |-> r.addr]
    /\ UNCHANGED <<varsRegistry, varsProbe, varsAct, varsEngine>>

NextAddr ==
    \/ CallString
    \/ CallParseRendered
    \/ CallParse

Init ==
    /\ InitRegistry
    /\ InitProbe
    /\ InitAct
    /\ InitEngine
    /\ InitAddr

SpecRegistry == Init /\ [][NextRegistry]_vars

SpecProbe == Init /\ [][NextProbe]_vars

SpecAct == Init /\ [][NextAct]_vars

SpecLoop == Init /\ [][NextLoop]_vars

SpecEngine == Init /\ [][NextEngine]_vars

SpecAddr == Init /\ [][NextAddr]_vars

SpecEngineNoError == Init /\ [][NextEngineNoError]_vars

(***************************************************************************)
(* Claims about the registry                                               *)
(***************************************************************************)
\* the UDPChecker a created instance carries: itself for udp, the embedded
\* one for udpping
BoundUDP(kind, checker) ==
    IF kind = CheckMethodUDP THEN Deref(checker) ELSE Deref(Deref(checker).UDPChecker)

UDPKinds == {CheckMethodUDP, CheckMethodUDPPing}

ValidNewChecker ==
    /\ call.op = "NewChecker"
    /\ call.kind \in UDPKinds
    /\ UDPValidate(call.params)

\* C1: NewChecker for udp / udpping with params that pass validation returns
\* an instance, never a runtime failure, whose send, receive and
\* proxy-protocol equal the values in params and are empty for absent keys.
C1_BindsParams ==
    ValidNewChecker =>
        /\ call.ret = "ok"
        /\ BoundUDP(call.kind, call.checker) = UDPBind(NewUDPChecker, call.params)

\* C7: the registry is immutable after startup: after any sequence of
\* Validate and NewChecker calls the registered kinds and every prototype's
\* fields are as right after the init-time registerMethod calls.
C7_RegistryImmutable == methods = InitMethods

RecognizedKeys == {ParamSend, ParamReceive, ParamProxyProto}

ValidateCall ==
    /\ call.op = "Validate"
    /\ call.kind \in UDPKinds

Dispatchable == DOMAIN methods

Translated == call.op = "TranslateAuto"

\* the mapping of TranslateAuto as the spec states it
AutoKind(proto) ==
    IF proto = IPProtoTCP THEN CheckMethodTCP
    ELSE IF proto = IPProtoUDP THEN CheckMethodUDPPing
    ELSE CheckMethodPing

\* C11: TranslateAuto maps TCP to tcp, UDP to udpping and every other
\* protocol to ping, whatever kind its receiver holds; the result is a
\* registered kind, never auto or passive, and NewChecker on it with the
\* default (empty) configs that auto uses returns an instance; NewChecker
\* called with auto, passive or any unregistered kind returns an error and
\* no instance.
C11_TranslateAuto ==
    /\ Translated =>
        /\ call.out = AutoKind(call.proto)
        /\ call.out \in Dispatchable \ {CheckMethodAuto, CheckMethodPassive}
        /\ Validate(methods, CheckMethodAuto, EmptyMap)
        /\ LET r == NewChecker(methods, call.out, EmptyMap)
           IN  r.ret = "ok" /\ ~IsNil(r.checker)
    /\ (call.op = "NewChecker" /\ call.kind \notin Dispatchable) =>
        call.ret = "err" /\ IsNil(call.checker)
    /\ {CheckMethodAuto, CheckMethodPassive} \cap Dispatchable = {}

\* a UDP target translated on a receiver holding auto, after earlier
\* NewChecker calls have written to the registered udp prototype
C11_Witness ==
    /\ Translated
    /\ call.kind = CheckMethodAuto
    /\ call.proto = IPProtoUDP
    /\ call.out = CheckMethodUDPPing
    /\ methods # InitMethods

(***************************************************************************)
(* Claims about the probes                                                 *)
(***************************************************************************)
Returned == pc = "done"

\* C2: Check of the udp and udpping probes returns (Unknown, error) if and
\* only if timeout <= 0, then without any network operation; for every
\* timeout > 0 and every network outcome the result is Healthy or Unhealthy
\* with a nil error.
C2_UnknownOnlyForZeroTimeout ==
    Returned =>
        /\ (result.state = Unknown /\ result.err) <=> timeout <= 0
        /\ timeout <= 0 => netlog = <<>>
        /\ timeout > 0 => result.state \in {Healthy, Unhealthy} /\ ~result.err

ReadDone == Returned /\ rd.kind # "none"

\* C3: in UDPChecker.Check with a positive timeout, after dial and write
\* succeeded, a failed read yields Healthy exactly when send and receive are
\* both empty and the read error is a timeout, every other read failure
\* yields Unhealthy, a successful read yields Healthy iff the bytes read
\* equal receive, and the result is never Unknown.
C3_ReadVerdict ==
    ReadDone =>
        /\ budget > 0
        /\ ~result.err
        /\ result.state \in {Healthy, Unhealthy}
        /\ rd.kind \in {"timeout", "error"} =>
              (result.state = Healthy <=>
                  chk.send = EmptyStr /\ chk.receive = EmptyStr /\ rd.kind = "timeout")
        /\ rd.kind = "data" => (result.state = Healthy <=> rd.got = chk.receive)

\* the black-holed port of the spec: empty send and receive, the read timed
\* out at the deadline, Healthy
C3_Witness ==
    /\ ReadDone
    /\ chk.kind = CheckMethodUDP
    /\ rd.kind = "timeout"
    /\ chk.send = EmptyStr /\ chk.receive = EmptyStr
    /\ result.state = Healthy
    /\ now = timeout

InUDPPing == chk.kind = CheckMethodUDPPing /\ timeout > 0 /\ pc # "idle"

IsUDPOp(op) == op \in {"dial", "proxy", "write", "read"}

\* C4: UDPPingChecker.Check with a positive timeout runs the ping stage first;
\* if ping reports Unhealthy it returns Unhealthy without starting the UDP
\* stage (no socket is opened); only if ping reports Healthy does it run the
\* UDP stage, with a budget of timeout minus the time already elapsed, so the
\* two stages together never get more than timeout.
C4_PingThenUDP ==
    InUDPPing =>
        /\ netlog # <<>> => netlog[1] = "ping"
        /\ \A i \in 2..Len(netlog) : IsUDPOp(netlog[i])
        /\ pinged.state = Unhealthy =>
              /\ Returned
              /\ result = [state |-> Unhealthy, err |-> FALSE]
              /\ netlog = <<"ping">>
        /\ (pc \notin {"ping", "done"} \/ Len(netlog) > 1) => pinged.state = Healthy
        /\ pinged.state = Healthy =>
              /\ budget = timeout - pinged.at
              /\ pinged.at + budget <= timeout
              /\ budget > 0 => deadline = timeout
        /\ now <= timeout

\* ping answered after one tick of a two-tick timeout and the UDP stage then
\* waited for the rest of the budget
C4_Witness ==
    /\ InUDPPing
    /\ Returned
    /\ pinged = [state |-> Healthy, at |-> 1]
    /\ timeout = 2
    /\ budget = 1
    /\ rd.kind = "timeout"
    /\ now = 2

(***************************************************************************)
(* Claims about the KernelRouteAddDel actioner                             *)
(***************************************************************************)
\* C5: with Act calls issued strictly one after another, at most one call's
\* kernel operations are in progress at any instant: no address or route
\* add / delete of a call is performed after that call has returned, so an
\* Act(Down) is never followed by the address add of an earlier, timed-out
\* Act(Up).
C5_NoKernelOpAfterReturn == late = {}

BothReturned(i) ==
    /\ acts[i].status = "returned"
    /\ acts[i + 1].status = "returned"
    /\ acts[i].signal = acts[i + 1].signal

NoneTimedOut == \A j \in 1..Len(acts) : acts[j].ret # "timeout"

SameOutcome(i) ==
    /\ acts[i].ret = "ok"
    /\ acts[i + 1].ret = "ok"
    /\ acts[i + 1].after = acts[i].after

\* C6 as stated: when no call times out and the link exists, two consecutive
\* Act calls with the same signal both return success and leave the same
\* interface state.
C6_IdempotentAsStated ==
    \A i \in 1..(Len(acts) - 1) :
        (BothReturned(i) /\ NoneTimedOut /\ actioner.link) => SameOutcome(i)

\* every call so far had a positive timeout and no netlink call of it was
\* refused with an error other than already-exists / not-found
NoneRefused == \A j \in 1..Len(acts) : acts[j].timeout > 0 /\ ~acts[j].denied

\* C6 amended: when every call is given a positive timeout, no call times out,
\* the link exists and no netlink call fails with an error other than
\* already-exists (on add) or not-found (on delete), two consecutive Act
\* calls with the same signal both return success and the interface state
\* after the second equals that after the first.
C6_Idempotent ==
    \A i \in 1..(Len(acts) - 1) :
        (BothReturned(i) /\ NoneTimedOut /\ actioner.link /\ NoneRefused) => SameOutcome(i)

\* Up twice with with-route: both succeed, the second on an address and a
\* route that are already there
C6_Witness ==
    /\ Len(acts) >= 2
    /\ BothReturned(1)
    /\ acts[1].signal = Healthy
    /\ actioner.withRoute
    /\ acts[1].ret = "ok" /\ acts[2].ret = "ok"
    /\ ~acts[2].denied
    /\ acts[2].after = [addr |-> TRUE, route |-> TRUE]

(***************************************************************************)
(* Claims about the checker loop and the dispatcher                        *)
(***************************************************************************)
\* a step of the checker loop: one more probe was made
TickStep == clock' = clock + 1

\* the threshold for leaving the confirmed state, as the claim words it
FlipAt ==
    IF confirmed = Healthy
    THEN (IF target.downRetry = 999999 THEN 1 ELSE target.downRetry)
    ELSE (IF target.upRetry = 999999 THEN 1 ELSE target.upRetry)

\* C8: the confirmed state flips only on a tick where the count of
\* consecutive verdicts opposite to confirmed reaches the threshold of that
\* direction (down-retry when Healthy, up-retry when Unhealthy, one when the
\* field is 999999); a verdict equal to confirmed resets the counter, an
\* Unknown verdict leaves confirmed and counter unchanged, and each flip
\* resets the counter and publishes exactly one event carrying the new state.
C8_Hysteresis ==
    [][target.added =>
          /\ confirmed' # confirmed =>
                /\ TickStep
                /\ verdict' = Opposite(confirmed)
                /\ counter + 1 = FlipAt
                /\ counter' = 0
                /\ emitted' = emitted + 1
                /\ Len(queue') = 1
                /\ Head(queue').signal = confirmed'
                /\ ~Head(queue').initial
          /\ (TickStep /\ verdict' = confirmed) =>
                counter' = 0 /\ confirmed' = confirmed
          /\ (TickStep /\ verdict' = Unknown) =>
                counter' = counter /\ confirmed' = confirmed
          /\ (TickStep /\ verdict' = Opposite(confirmed) /\ counter + 1 < FlipAt) =>
                counter' = counter + 1 /\ confirmed' = confirmed
          /\ confirmed' = confirmed => emitted' = emitted
          /\ counter < FlipAt]_vars

\* the TCP backend flap of the spec: up-retry 2, down-retry 3, initially
\* Healthy, verdicts H,U,U,U,H,H: Unhealthy at the fourth probe, Healthy
\* again at the sixth, two events
C8_Witness ==
    /\ target.added
    /\ target.upRetry = 2 /\ target.downRetry = 3
    /\ clock = 6
    /\ verdict = Healthy
    /\ confirmed = Healthy
    /\ counter = 0
    /\ emitted = 2

\* C9: an event is dropped by the min-interval rule only if it carries the
\* signal of the last successful action and arrives less than
\* action-sync-time after it; an event with a different signal is never
\* debounced, and the initial replay event is never debounced: Act is invoked
\* for it.
C9_Debounce ==
    /\ disp.outcome = "debounced" => (disp.same /\ disp.within /\ ~disp.initial)
    /\ (disp.outcome # "none" /\ ~disp.same) => disp.outcome # "debounced"
    /\ disp.initial => disp.outcome = "act"

\* an Up event dropped within the sync time of a successful Up, after the
\* Down event between them was superseded or its action failed
C9_Witness ==
    /\ disp.outcome = "debounced"
    /\ lastSignal = Healthy
    /\ emitted >= 2
    /\ dpc = "idle"

(***************************************************************************)
(* Claims about target keys                                                *)
(***************************************************************************)
\* the same IP (as ip.Equal has it), Proto and Port
AddrEqual(a, b) == IPEqual(a.IP, b.IP) /\ a.Proto = b.Proto /\ a.Port = b.Port

RoundTrip == l3l4.op = "RoundTrip"

\* C12: for every L3L4Addr a with a valid IP, a Proto among TCP, UDP, ICMP
\* and ICMPv6 and a Port in 0..65535, ParseL3L4Addr(a.String()) returns an
\* address with the same IP, Proto and Port, and any such address that
\* renders to the same string as a is equal to a.
C12_RoundTrip ==
    /\ RoundTrip => l3l4.ret = "addr" /\ AddrEqual(l3l4.out, l3l4.addr)
    /\ l3l4.op = "String" =>
        \A b \in Addrs : L3L4AddrString(b) = l3l4.str => AddrEqual(b, l3l4.addr)

\* the round trip of [2001::1:0:0:1]-ICMPv6-65535, whose text has a "::"
C12_Witness ==
    /\ RoundTrip
    /\ l3l4.addr.IP \in IPv6s
    /\ l3l4.addr.Proto = IPProtoICMPv6
    /\ l3l4.addr.Port = 65535
    /\ l3l4.str = <<"2", "0", "0", "0", ":", ":", "1", ":", "0", ":", "0", ":", "1",
                    "-", "I", "C", "M", "P", "v", "6", "-", "6", "5", "5", "3", "5">>
    /\ l3l4.ret = "addr"

Parsed == l3l4.op = "Parse"

\* the '-'-separated segments of the text that was parsed
InputSegs == Split(l3l4.str, "-")

\* C14: ParseL3L4Addr returns nil or an address for every input string,
\* without a runtime failure, whatever the number of '-'-separated segments;
\* a bare IP literal yields an address with that IP and zero protocol and
\* port, and an IP-PROTO key yields that IP and protocol with port 0.
C14_ParseTotal ==
    Parsed =>
        /\ l3l4.ret \in {"nil", "addr"}
        /\ (Len(InputSegs) = 1 /\ ~IsNil(ParseIP(InputSegs[1]))) =>
            /\ l3l4.ret = "addr"
            /\ IPEqual(l3l4.out.IP, ParseIP(InputSegs[1]))
            /\ l3l4.out.Proto = 0
            /\ l3l4.out.Port = 0
        /\ (/\ Len(InputSegs) = 2
            /\ ~IsNil(ParseIP(InputSegs[1]))
            /\ ParseIPProto(InputSegs[2]) # 0) =>
            /\ l3l4.ret = "addr"
            /\ IPEqual(l3l4.out.IP, ParseIP(InputSegs[1]))
            /\ l3l4.out.Proto = ParseIPProto(InputSegs[2])
            /\ l3l4.out.Port = 0

(***************************************************************************)
(* Claims about convergence of the dispatcher                              *)
(***************************************************************************)
\* nothing is pending: no event is queued and no Act is running
Settled == target.added /\ queue = <<>> /\ dpc = "idle"

\* C13: for one target, when no action returns an error, once the
\* dispatcher has processed every pending event (and the checker produces
\* no further transition) the signal of the last successfully executed
\* action equals the confirmed state; a transition event produced while the
\* Act for the previous transition is still running is not dropped as stale.
C13_Converges == Settled => lastSignal = confirmed

(***************************************************************************)
(* Claims about the worker goroutine of Act                                *)
(***************************************************************************)
\* a worker about to send finds that its send goes through
SendNeverBlocks ==
    \A i \in 1..Len(acts) : wpc[i] = "send" => CanSend(done[i], Receiving(i))

\* a value is put on done[i] only by the send that ends worker i, a worker
\* ends only by that send, and an ended worker does nothing more
OneSend ==
    \A i \in 1..Len(acts) :
        /\ Len(done'[i]) > Len(done[i]) => wpc[i] = "send" /\ wpc'[i] = "exit"
        /\ (wpc[i] # "exit" /\ wpc'[i] = "exit") => done'[i] = Append(done[i], werr[i])
        /\ wpc[i] = "exit" => wpc'[i] = "exit"

\* the number of steps a worker at position p has left at most
StepsLeft(p) ==
    CASE p = "link"  -> 4
      [] p = "addr"  -> 3
      [] p = "route" -> 2
      [] p = "send"  -> 1
      [] OTHER       -> 0

\* whenever a worker moves it comes closer to its end: each netlink call
\* that returns takes it to the next call or to the send
Advances ==
    \A i \in 1..Len(acts) : wpc'[i] # wpc[i] => StepsLeft(wpc'[i]) < StepsLeft(wpc[i])

\* C15: in KernelRouteAction.Act the worker goroutine terminates once its
\* netlink calls return, on every path (link lookup failure, add or delete
\* failure, success) and also when Act has already returned on timeout:
\* every netlink call that returns brings the worker closer to its single
\* send on done, it sends exactly one value, and that send never blocks, so
\* no worker stays blocked.
C15_WorkerTerminates ==
    /\ []SendNeverBlocks
    /\ [][OneSend /\ Advances]_vars

\* a worker that ended after its Act had returned on timeout: its one value
\* stays in the buffer of done
C15_Witness ==
    \E i \in 1..Len(acts) :
        /\ acts[i].ret = "timeout"
        /\ wpc[i] = "exit"
        /\ Len(done[i]) = 1
        /\ <<i, "AddrAdd">> \in late

====
